---- MODULE Spec2Model ----
(***************************************************************************)
(* Inertial-Sensor-Analytics: advanced_analysis.py (calibration, drift and *)
(* heading integration) and basic_analysis.py (per-trial statistics and    *)
(* the grouped report).                                                    *)
(*                                                                         *)
(* Text is a sequence of one-character strings, so that substring tests,   *)
(* lower-casing, the extension split and the regular expression are        *)
(* computed on characters.  A float is an exact rational [num, den] with   *)
(* den > 0 in lowest terms; den = 0 is NaN.  Rounding of IEEE doubles is   *)
(* not modelled, except for the square root of the standard deviation,     *)
(* which is rounded down to a multiple of 1/StdScale.                      *)
(***************************************************************************)
EXTENDS Integers, Sequences, FiniteSets, TLC

(* ------------------------------ bounds --------------------------------- *)
\* Files in the data folder.
MaxFiles == 2
\* Rows of an accelerometer sheet of a file in the data folder.
MaxRows == 4
\* Rows of a table drawn for a single call of a function.
MaxLen == 3
\* Largest timestamp drawn.
MaxT == 4
\* Largest trim margin drawn for the trim on its own.
MaxTrim == 2
\* StatRecords handed to the report on its own.
MaxRecords == 3
\* Largest magnitude of a sample drawn for a single call of a function.
MaxV == 1
\* The standard deviation is rounded down to a multiple of 1/StdScale.
StdScale == 100

(* --------------------------- configuration ----------------------------- *)
TRIM_SECONDS == 1

(* ------------------------------- text ---------------------------------- *)
UPPER == <<"A", "B", "C", "D", "E", "F", "G", "H", "I", "J", "K", "L", "M", "N", "O", "P", "Q", "R", "S", "T", "U", "V", "W", "X", "Y", "Z">>
LOWER == <<"a", "b", "c", "d", "e", "f", "g", "h", "i", "j", "k", "l", "m", "n", "o", "p", "q", "r", "s", "t", "u", "v", "w", "x", "y", "z">>

Range(s) == {s[k] : k \in 1..Len(s)}

\* The lower-case letter of every upper-case letter.
LowerOf == [c \in Range(UPPER) |-> LOWER[CHOOSE k \in 1..Len(UPPER) : UPPER[k] = c]]

\* str.lower() on one character.
LowerChar(c) == IF c \in DOMAIN LowerOf THEN LowerOf[c] ELSE c

\* str.lower()
Lower(s) == [k \in 1..Len(s) |-> LowerChar(s[k])]

\* pat in s
Contains(s, pat) ==
  \E k \in 1..(Len(s) - Len(pat) + 1) : \A j \in 1..Len(pat) : s[k + j - 1] = pat[j]

\* s.endswith(suffix)
EndsWith(s, suffix) ==
  /\ Len(s) >= Len(suffix)
  /\ SubSeq(s, Len(s) - Len(suffix) + 1, Len(s)) = suffix

\* f.endswith(('.xls', '.xlsx'))
IsExcel(f) == EndsWith(f, <<".", "x", "l", "s">>) \/ EndsWith(f, <<".", "x", "l", "s", "x">>)

\* os.path.splitext(f)[0]: cut at the last dot, unless only dots precede it.
SplitextStem(f) ==
  LET dots == {k \in 1..Len(f) : f[k] = "."}
  IN  IF dots = {} THEN f
      ELSE LET p == CHOOSE k \in dots : \A j \in dots : j <= k
           IN  IF \A j \in 1..(p - 1) : f[j] = "." THEN f
               ELSE SubSeq(f, 1, p - 1)

\* [a-zA-Z]
Letters == Range(UPPER) \cup Range(LOWER)
IsAlpha(c) == c \in Letters

\* The code point of a letter.
CodePoint ==
  [c \in Letters |->
     IF \E k \in 1..Len(UPPER) : UPPER[k] = c
     THEN 64 + (CHOOSE k \in 1..Len(UPPER) : UPPER[k] = c)
     ELSE 96 + (CHOOSE k \in 1..Len(LOWER) : LOWER[k] = c)]
Ord(c) == CodePoint[c]

\* a < b for Python strings: by code point, a proper prefix first.
StrLess(a, b) ==
  \E k \in 1..(Len(b)) :
     /\ k <= Len(a) + 1
     /\ SubSeq(a, 1, k - 1) = SubSeq(b, 1, k - 1)
     /\ (k = Len(a) + 1 \/ (k <= Len(a) /\ Ord(a[k]) < Ord(b[k])))

(* ------------------------------ floats --------------------------------- *)
Abs(n) == IF n < 0 THEN -n ELSE n

RECURSIVE Gcd(_, _)
Gcd(a, b) == IF b = 0 THEN a ELSE Gcd(b, a % b)

NaN == [num |-> 0, den |-> 0]
IsNaN(x) == x.den = 0

\* n/d in lowest terms with a positive denominator; x/0 is NaN.
Rat(n, d) ==
  IF d = 0 THEN NaN
  ELSE LET g == Gcd(Abs(n), Abs(d))
           s == IF d < 0 THEN -1 ELSE 1
       IN  [num |-> (s * n) \div g, den |-> (s * d) \div g]

R(n) == [num |-> n, den |-> 1]

RAdd(p, q) == IF IsNaN(p) \/ IsNaN(q) THEN NaN
              ELSE Rat(p.num * q.den + q.num * p.den, p.den * q.den)
RSub(p, q) == IF IsNaN(p) \/ IsNaN(q) THEN NaN
              ELSE Rat(p.num * q.den - q.num * p.den, p.den * q.den)
RMul(p, q) == IF IsNaN(p) \/ IsNaN(q) THEN NaN
              ELSE Rat(p.num * q.num, p.den * q.den)
RDiv(p, q) == IF IsNaN(p) \/ IsNaN(q) THEN NaN
              ELSE Rat(p.num * q.den, p.den * q.num)
\* p <= q and p >= q; every comparison with NaN is false.
RLe(p, q) == ~IsNaN(p) /\ ~IsNaN(q) /\ p.num * q.den <= q.num * p.den
RGe(p, q) == RLe(q, p)

RECURSIVE RSum(_)
RSum(s) == IF s = <<>> THEN R(0) ELSE RAdd(s[1], RSum(Tail(s)))

(* --------------------------- pandas / numpy ---------------------------- *)
None == [kind |-> "None"]

\* How a call that may raise ends: with the exception, or with its value.
Raise(exc, where) == [kind |-> "raise", exc |-> exc, where |-> where]
Ok(value) == [kind |-> "ok", value |-> value]
IsRaise(v) == v.kind = "raise"

\* A table: the column names in order, and one sequence of cells per column.
DataFrame(columns, data) == [kind |-> "DataFrame", columns |-> columns, data |-> data]

NRows(df) == IF df.data = <<>> THEN 0 ELSE Len(df.data[1])

HasCol(df, name) == \E k \in 1..Len(df.columns) : df.columns[k] = name

\* df[name]: the first column of that name.
Col(df, name) ==
  df.data[CHOOSE k \in 1..Len(df.columns) :
            /\ df.columns[k] = name
            /\ \A j \in 1..(k - 1) : df.columns[j] # name]

\* df[name] = vals: replaces the column when it exists, appends it otherwise.
SetCol(df, name, vals) ==
  IF HasCol(df, name)
  THEN DataFrame(df.columns,
                 [k \in 1..Len(df.columns) |->
                    IF df.columns[k] = name THEN vals ELSE df.data[k]])
  ELSE DataFrame(Append(df.columns, name), Append(df.data, vals))

\* [c for c in df.columns if pat in c]
ColsMatching(df, pat) == SelectSeq(df.columns, LAMBDA c : Contains(c, pat))

\* df.rename(columns={old: new})
Rename(df, old, new) ==
  DataFrame([k \in 1..Len(df.columns) |->
               IF df.columns[k] = old THEN new ELSE df.columns[k]], df.data)

\* df[mask]: the rows whose index is in keep, in order.
SelectRows(df, keep) ==
  LET idx == SelectSeq([k \in 1..NRows(df) |-> k], LAMBDA k : k \in keep)
  IN  DataFrame(df.columns,
                [c \in 1..Len(df.columns) |->
                   [j \in 1..Len(idx) |-> df.data[c][idx[j]]]])

\* Series.min() and Series.max(); NaN for an empty series.
SeriesMin(s) ==
  IF s = <<>> THEN NaN
  ELSE s[CHOOSE k \in 1..Len(s) : \A j \in 1..Len(s) : RLe(s[k], s[j])]
SeriesMax(s) ==
  IF s = <<>> THEN NaN
  ELSE s[CHOOSE k \in 1..Len(s) : \A j \in 1..Len(s) : RGe(s[k], s[j])]

\* Series.mean(): NaN cells are skipped; NaN when nothing is left.
SeriesMean(s) ==
  LET present == SelectSeq(s, LAMBDA x : ~IsNaN(x))
  IN  IF present = <<>> THEN NaN
      ELSE RDiv(RSum(present), R(Len(present)))

\* A power of two above sqrt(n), from h on.
RECURSIVE Above(_, _)
Above(n, h) == IF h * h > n THEN h ELSE Above(n, 2 * h)

\* floor(sqrt(n)) for n >= 0, by bisection on lo..hi.
RECURSIVE Isqrt(_, _, _)
Isqrt(n, lo, hi) ==
  IF lo >= hi THEN lo
  ELSE LET mid == (lo + hi + 1) \div 2
       IN  IF mid * mid <= n THEN Isqrt(n, mid, hi) ELSE Isqrt(n, lo, mid - 1)

\* Series.std(): the sample definition (n - 1); NaN for fewer than two cells.
SeriesStd(s) ==
  LET present == SelectSeq(s, LAMBDA x : ~IsNaN(x))
      n == Len(present)
  IN  IF n < 2 THEN NaN
      ELSE LET m == SeriesMean(present)
               sq == [k \in 1..n |-> RMul(RSub(present[k], m), RSub(present[k], m))]
               var == RDiv(RSum(sq), R(n - 1))
               scaled == (var.num * StdScale * StdScale) \div var.den
           IN  Rat(Isqrt(scaled, 0, Above(scaled, 1)), StdScale)

\* np.interp at one point: linear between samples, held at the boundary
\* values outside them.  xp is increasing and not empty.
InterpAt(x, xp, fp) ==
  LET n == Len(xp)
  IN  IF RLe(x, xp[1]) THEN fp[1]
      ELSE IF RGe(x, xp[n]) THEN fp[n]
      ELSE LET j == CHOOSE k \in 1..(n - 1) : RLe(xp[k], x) /\ ~RLe(xp[k + 1], x)
               slope == RDiv(RSub(fp[j + 1], fp[j]), RSub(xp[j + 1], xp[j]))
           IN  RAdd(RMul(slope, RSub(x, xp[j])), fp[j])

\* np.interp(x, xp, fp); ValueError when there are no sample points.
Interp(x, xp, fp) ==
  IF xp = <<>> THEN Raise("ValueError", "np.interp")
  ELSE Ok([k \in 1..Len(x) |-> InterpAt(x[k], xp, fp)])

\* np.diff
Diff(x) == [k \in 1..(Len(x) - 1) |-> RSub(x[k + 1], x[k])]

\* np.cumsum
RECURSIVE Cumsum(_)
Cumsum(s) ==
  IF s = <<>> THEN <<>>
  ELSE LET head == Cumsum(SubSeq(s, 1, Len(s) - 1))
       IN  Append(head, IF head = <<>> THEN s[1] ELSE RAdd(head[Len(head)], s[Len(s)]))

\* cumulative_trapezoid by the rectangle rule: the left sample times the step.
cumulative_rectangle(y, x) ==
  IF y = <<>> \/ Len(x) # Len(y) THEN Raise("ValueError", "cumulative_trapezoid")
  ELSE LET d == Diff(x)
           area == [k \in 1..Len(d) |-> RMul(d[k], y[k])]
       IN  Ok(<<R(0)>> \o Cumsum(area))

\* scipy.integrate.cumulative_trapezoid(y, x, initial=0).  It refuses an empty
\* y: the lengths of diff(x) and y do not fit.
cumulative_trapezoid(y, x) ==
  IF y = <<>> \/ Len(x) # Len(y) THEN Raise("ValueError", "cumulative_trapezoid")
  ELSE LET d == Diff(x)
           area == [k \in 1..Len(d) |->
                      RDiv(RMul(d[k], RAdd(y[k + 1], y[k])), R(2))]
       IN  Ok(<<R(0)>> \o Cumsum(area))

\* np.degrees, with 180/pi taken as 5729578/100000.
Degrees(s) == [k \in 1..Len(s) |-> RMul(s[k], Rat(5729578, 100000))]

(* ---------------------- load / trim (both scripts) --------------------- *)
\* RowsKept with strict comparisons.
RowsKeptStrictly(df, trim_seconds) ==
  LET time == Col(df, <<"T", "i", "m", "e">>)
      t_min == RAdd(SeriesMin(time), R(trim_seconds))
      t_max == RSub(SeriesMax(time), R(trim_seconds))
  IN  {k \in 1..NRows(df) : ~RLe(time[k], t_min) /\ ~RGe(time[k], t_max)}

\* The trim of both scripts: the rows with t_min + trim <= Time <= t_max - trim.
RowsKept(df, trim_seconds) ==
  LET time == Col(df, <<"T", "i", "m", "e">>)
      t_min == RAdd(SeriesMin(time), R(trim_seconds))
      t_max == RSub(SeriesMax(time), R(trim_seconds))
  IN  {k \in 1..NRows(df) : RGe(time[k], t_min) /\ RLe(time[k], t_max)}

TrimRows(df, trim_seconds) == SelectRows(df, RowsKept(df, trim_seconds))

\* A workbook on disk: unreadable (no such sheet, not a spreadsheet), or its
\* two sheets.
Unreadable == [kind |-> "unreadable"]
Workbook(acc, gyro) == [kind |-> "workbook", acc |-> acc, gyro |-> gyro]

\* for col in df_gyro.columns: if col != "Time": df_merged[col] = np.interp(...)
\* from column k on.  An exception of np.interp ends the loop.
RECURSIVE MergeGyro(_, _, _, _)
MergeGyro(df_merged, df_acc, df_gyro, k) ==
  IF k > Len(df_gyro.columns) THEN df_merged
  ELSE LET col == df_gyro.columns[k]
       IN  IF col = <<"T", "i", "m", "e">> THEN MergeGyro(df_merged, df_acc, df_gyro, k + 1)
           ELSE LET v == Interp(Col(df_acc, <<"T", "i", "m", "e">>), Col(df_gyro, <<"T", "i", "m", "e">>),
                                Col(df_gyro, col))
                IN  IF IsRaise(v) THEN v
                    ELSE MergeGyro(SetCol(df_merged, col, v.value), df_acc, df_gyro,
                                   k + 1)

\* ReadMerged with the sheets taken for each other: the accelerometer is
\* resampled onto the gyroscope's timestamps.
ReadMergedOntoGyro(wb) ==
  IF wb.kind = "unreadable" THEN Raise("Exception", "pd.read_excel")
  ELSE LET acc_ts == ColsMatching(wb.acc, <<"T", "i", "m", "e">>)
           gyro_ts == ColsMatching(wb.gyro, <<"T", "i", "m", "e">>)
       IN  IF acc_ts = <<>> \/ gyro_ts = <<>>
           THEN Raise("IndexError", "load_phyphox_xls")
           ELSE LET df_acc == Rename(wb.acc, acc_ts[1], <<"T", "i", "m", "e">>)
                    df_gyro == Rename(wb.gyro, gyro_ts[1], <<"T", "i", "m", "e">>)
                IN  MergeGyro(df_gyro, df_gyro, df_acc, 1)

\* The body of the try block of load_phyphox_xls up to the merged table: the
\* table, or the exception raised on the way.
ReadMerged(wb) ==
  IF wb.kind = "unreadable" THEN Raise("Exception", "pd.read_excel")
  ELSE LET acc_ts == ColsMatching(wb.acc, <<"T", "i", "m", "e">>)
           gyro_ts == ColsMatching(wb.gyro, <<"T", "i", "m", "e">>)
       IN  IF acc_ts = <<>> \/ gyro_ts = <<>>
           THEN Raise("IndexError", "load_phyphox_xls")
           ELSE LET df_acc == Rename(wb.acc, acc_ts[1], <<"T", "i", "m", "e">>)
                    df_gyro == Rename(wb.gyro, gyro_ts[1], <<"T", "i", "m", "e">>)
                IN  MergeGyro(df_acc, df_acc, df_gyro, 1)

\* advanced_analysis.load_phyphox_xls: the merged table trimmed, None after
\* any exception.
load_phyphox_xls(wb) ==
  LET df_merged == ReadMerged(wb)
  IN  IF IsRaise(df_merged) THEN None
      ELSE TrimRows(df_merged, TRIM_SECONDS)

\* basic_analysis.load_phyphox_xls: the merged table, None after any exception.
basic_load_phyphox_xls(wb) ==
  LET df_merged == ReadMerged(wb)
  IN  IF IsRaise(df_merged) THEN None ELSE df_merged

(* ------------------------ advanced_analysis.py -------------------------- *)
\* [f for f in os.listdir(DATA_FOLDER) if "stationary" in f.lower() and f.endswith(...)]
StationaryFiles(listing) ==
  SelectSeq(listing, LAMBDA f : Contains(Lower(f), <<"s", "t", "a", "t", "i", "o", "n", "a", "r", "y">>) /\ IsExcel(f))

\* [f for f in os.listdir(DATA_FOLDER) if f.endswith(('.xls', '.xlsx'))]
ExcelFiles(listing) == SelectSeq(listing, IsExcel)

\* The loop of get_calibration_bias over a loaded table: the mean of every
\* column whose name does not contain "Time".
BiasOf(df) ==
  [c \in {col \in Range(df.columns) : ~Contains(col, <<"T", "i", "m", "e">>)} |->
     SeriesMean(Col(df, c))]

\* bias.get(col, 0)
BiasGet(bias, col) == IF col \in DOMAIN bias THEN bias[col] ELSE R(0)

\* acc_raw - bias.get(acc_col, 0)
Corrected(raw, b) == [k \in 1..Len(raw) |-> RSub(raw[k], b)]

\* analyze_drift(df, filename, bias): the figure saved, or the exception.
analyze_drift(df, filename, bias) ==
  LET acc_cols == ColsMatching(df, <<"A", "c", "c", "e", "l", "e", "r", "a", "t", "i", "o", "n", " ", "y">>)
  IN  IF acc_cols = <<>> THEN Raise("IndexError", "analyze_drift")
      ELSE LET acc_col == acc_cols[1]
               time == Col(df, <<"T", "i", "m", "e">>)
               acc_raw == Col(df, acc_col)
               vel_raw == cumulative_trapezoid(acc_raw, time)
               acc_corr == Corrected(acc_raw, BiasGet(bias, acc_col))
               vel_corr == cumulative_trapezoid(acc_corr, time)
           IN  IF IsRaise(vel_raw) THEN vel_raw
               ELSE IF IsRaise(vel_corr) THEN vel_corr
               ELSE [kind |-> "Drift_Compare", filename |-> filename,
                     channel |-> acc_col, time |-> time,
                     raw |-> vel_raw.value, corrected |-> vel_corr.value]

\* analyze_heading(df, filename, bias): the figure saved, or the exception.
analyze_heading(df, filename, bias) ==
  LET gyro_cols == ColsMatching(df, <<"G", "y", "r", "o", "s", "c", "o", "p", "e", " ", "z">>)
  IN  IF gyro_cols = <<>> THEN Raise("IndexError", "analyze_heading")
      ELSE LET gyro_col == gyro_cols[1]
               time == Col(df, <<"T", "i", "m", "e">>)
               gyro_raw == Col(df, gyro_col)
               gyro_corr == Corrected(gyro_raw, BiasGet(bias, gyro_col))
               angle_rad == cumulative_trapezoid(gyro_corr, time)
           IN  IF IsRaise(angle_rad) THEN angle_rad
               ELSE [kind |-> "Heading", filename |-> filename,
                     channel |-> gyro_col, time |-> time,
                     rad |-> angle_rad.value, deg |-> Degrees(angle_rad.value)]

(* -------------------------- basic_analysis.py --------------------------- *)
\* The statistics loop of process_and_plot: "{col}_Mean" and "{col}_Std" for
\* every column but "Time", from column k on.
RECURSIVE StatKeys(_, _)
StatKeys(df, k) ==
  IF k > Len(df.columns) THEN <<>>
  ELSE IF df.columns[k] = <<"T", "i", "m", "e">> THEN StatKeys(df, k + 1)
  ELSE <<df.columns[k] \o <<"_", "M", "e", "a", "n">>, df.columns[k] \o <<"_", "S", "t", "d">>>> \o StatKeys(df, k + 1)

RECURSIVE StatVals(_, _)
StatVals(df, k) ==
  IF k > Len(df.columns) THEN <<>>
  ELSE IF df.columns[k] = <<"T", "i", "m", "e">> THEN StatVals(df, k + 1)
  ELSE <<SeriesMean(Col(df, df.columns[k])), SeriesStd(Col(df, df.columns[k]))>>
       \o StatVals(df, k + 1)

\* A StatRecord: the dict built by process_and_plot, its keys in insertion order.
StatRecord(filename, keys, vals) ==
  [kind |-> "stats", Filename |-> filename, keys |-> keys, vals |-> vals]

\* process_and_plot(df, filename): None when the trim leaves no row, the
\* StatRecord otherwise, or the exception of a column lookup for the plots.
process_and_plot(df, filename) ==
  LET df_trim == TrimRows(df, TRIM_SECONDS)
      patterns == <<<<"A", "c", "c", "e", "l", "e", "r", "a", "t", "i", "o", "n", " ", "x">>, <<"A", "c", "c", "e", "l", "e", "r", "a", "t", "i", "o", "n", " ", "y">>, <<"A", "c", "c", "e", "l", "e", "r", "a", "t", "i", "o", "n", " ", "z">>,
                    <<"G", "y", "r", "o", "s", "c", "o", "p", "e", " ", "x">>, <<"G", "y", "r", "o", "s", "c", "o", "p", "e", " ", "y">>, <<"G", "y", "r", "o", "s", "c", "o", "p", "e", " ", "z">>>>
  IN  IF NRows(df_trim) = 0 THEN None
      ELSE IF \E k \in 1..Len(patterns) : ColsMatching(df_trim, patterns[k]) = <<>>
      THEN Raise("IndexError", "process_and_plot")
      ELSE StatRecord(filename, StatKeys(df_trim, 1), StatVals(df_trim, 1))

\* re.match(r"([a-zA-Z]+)", x).group(1) if it matches else "Other"
GroupKey(x) ==
  LET n == Cardinality({k \in 1..Len(x) : \A j \in 1..k : IsAlpha(x[j])})
  IN  IF n = 0 THEN <<"O", "t", "h", "e", "r">> ELSE SubSeq(x, 1, n)

\* The columns of pd.DataFrame(stats_list) after "Filename": every key, in the
\* order of its first appearance.
RECURSIVE FrameKeys(_)
FrameKeys(stats_list) ==
  IF stats_list = <<>> THEN <<>>
  ELSE LET before == FrameKeys(SubSeq(stats_list, 1, Len(stats_list) - 1))
           last == stats_list[Len(stats_list)]
       IN  before \o SelectSeq(last.keys, LAMBDA key : key \notin Range(before))

\* A cell of pd.DataFrame(stats_list): NaN where the record has no such key.
Cell(rec, key) ==
  IF key \in Range(rec.keys)
  THEN rec.vals[CHOOSE k \in 1..Len(rec.keys) : rec.keys[k] = key]
  ELSE NaN

\* The group keys sorted the other way round.
RECURSIVE SortedKeysDescending(_)
SortedKeysDescending(keys) ==
  IF keys = {} THEN <<>>
  ELSE LET first == CHOOSE g \in keys : \A h \in keys : ~StrLess(g, h)
       IN  <<first>> \o SortedKeysDescending(keys \ {first})

\* The group keys in the order df.groupby('Group') yields them: sorted.
RECURSIVE SortedKeys(_)
SortedKeys(keys) ==
  IF keys = {} THEN <<>>
  ELSE LET first == CHOOSE g \in keys : \A h \in keys : ~StrLess(h, g)
       IN  <<first>> \o SortedKeys(keys \ {first})

\* GroupMean with a NaN cell counted as 0 instead of being skipped.
GroupMeanNaNAsZero(stats_list, group, key) ==
  LET members == SelectSeq(stats_list, LAMBDA rec : GroupKey(rec.Filename) = group)
      cell(k) == IF IsNaN(Cell(members[k], key)) THEN R(0) ELSE Cell(members[k], key)
  IN  SeriesMean([k \in 1..Len(members) |-> cell(k)])

\* .mean(numeric_only=True) of one column over one group: the mean of the
\* members' cells that are not NaN.
GroupMean(stats_list, group, key) ==
  LET members == SelectSeq(stats_list, LAMBDA rec : GroupKey(rec.Filename) = group)
  IN  SeriesMean([k \in 1..Len(members) |-> Cell(members[k], key)])

\* A row of the report.
Row(filename, vals) == [Filename |-> filename, vals |-> vals]

\* save_formatted_excel(stats_list): nothing is written for an empty list;
\* otherwise the table written has the trials' rows, then one "{group}_avg"
\* row per group.
save_formatted_excel(stats_list) ==
  IF stats_list = <<>> THEN None
  ELSE LET keys == FrameKeys(stats_list)
           df == [k \in 1..Len(stats_list) |->
                    Row(stats_list[k].Filename,
                        [c \in 1..Len(keys) |-> Cell(stats_list[k], keys[c])])]
           groups == SortedKeys({GroupKey(stats_list[k].Filename) :
                                   k \in 1..Len(stats_list)})
           group_means == [g \in 1..Len(groups) |->
                             Row(groups[g] \o <<"_", "a", "v", "g">>,
                                 [c \in 1..Len(keys) |->
                                    GroupMean(stats_list, groups[g], keys[c])])]
       IN  [kind |-> "report", columns |-> keys, rows |-> df \o group_means]

(* ------------------------------- state ---------------------------------- *)
VARIABLES
  script,     \* which script runs: "advanced" or "basic"
  folder,     \* "present" or "missing": whether os.listdir(DATA_FOLDER) succeeds
  listing,    \* what os.listdir(DATA_FOLDER) returns, in its order
  pc,         \* where the script is
  i,          \* the position of the loop `for f in files`
  df,         \* the global df: the table of the file at hand, or None
  bias,       \* the global bias of advanced_analysis.py
  all_stats,  \* the list all_stats of basic_analysis.py
  plot,       \* the figure saved last
  report,     \* the table written by save_formatted_excel, or None
  log,        \* what was printed
  outcome,    \* per file met by the loop, what the loop did with it
  raised,     \* the exception that ended the script, or None
  arg,        \* the argument of a function called on its own
  ret         \* what that call returned

vars == <<script, folder, listing, pc, i, df, bias, all_stats, plot, report, log,
          outcome, raised, arg, ret>>

(* ------------------------- the data folder ------------------------------ *)
FileNames ==
  { <<"s", "t", "a", "t", "i", "o", "n", "a", "r", "y", ".", "x", "l", "s", "x">>, <<"S", "t", "r", "a", "i", "g", "h", "t", "1", ".", "x", "l", "s">>, <<"r", "e", "v", "e", "r", "s", "e", "_", "l", "a", "n", "e", ".", "x", "l", "s", "x">>, <<"l", "a", "n", "e", "2", ".", "x", "l", "s", "x">>,
    <<"b", "u", "m", "p", "1", ".", "x", "l", "s", "x">>, <<"S", "t", "a", "t", "i", "o", "n", "a", "r", "y", "_", "s", "t", "r", "a", "i", "g", "h", "t", ".", "x", "l", "s">>, <<"n", "o", "t", "e", "s", ".", "t", "x", "t">> }

\* Listings: up to MaxFiles distinct file names, in any order.
Listings ==
  UNION {{l \in [1..n -> FileNames] : \A a, b \in 1..n : a # b => l[a] # l[b]} :
           n \in 0..MaxFiles}

Ints(s) == [k \in 1..Len(s) |-> R(s[k])]

\* An accelerometer sheet of n rows sampled every second.
AccSheet(timeName, n, withY) ==
  LET time == [k \in 1..n |-> R(k - 1)]
      x == [k \in 1..n |-> R(0)]
      y == [k \in 1..n |-> R(k * k)]
      z == [k \in 1..n |-> R(10)]
  IN  IF withY
      THEN DataFrame(<<timeName, <<"A", "c", "c", "e", "l", "e", "r", "a", "t", "i", "o", "n", " ", "x", " ", "(", "m", "/", "s", "^", "2", ")">>, <<"A", "c", "c", "e", "l", "e", "r", "a", "t", "i", "o", "n", " ", "y", " ", "(", "m", "/", "s", "^", "2", ")">>,
                       <<"A", "c", "c", "e", "l", "e", "r", "a", "t", "i", "o", "n", " ", "z", " ", "(", "m", "/", "s", "^", "2", ")">>>>, <<time, x, y, z>>)
      ELSE DataFrame(<<timeName, <<"A", "c", "c", "e", "l", "e", "r", "a", "t", "i", "o", "n", " ", "x", " ", "(", "m", "/", "s", "^", "2", ")">>,
                       <<"A", "c", "c", "e", "l", "e", "r", "a", "t", "i", "o", "n", " ", "z", " ", "(", "m", "/", "s", "^", "2", ")">>>>, <<time, x, z>>)

\* A gyroscope sheet sampled every two seconds.
GyroSheet(withZ) ==
  LET time == Ints(<<0, 2, 4>>)
      x == Ints(<<0, 0, 0>>)
      y == Ints(<<1, 0, 1>>)
      z == Ints(<<1, 2, 4>>)
  IN  IF withZ
      THEN DataFrame(<<<<"T", "i", "m", "e", " ", "(", "s", ")">>, <<"G", "y", "r", "o", "s", "c", "o", "p", "e", " ", "x", " ", "(", "r", "a", "d", "/", "s", ")">>, <<"G", "y", "r", "o", "s", "c", "o", "p", "e", " ", "y", " ", "(", "r", "a", "d", "/", "s", ")">>,
                       <<"G", "y", "r", "o", "s", "c", "o", "p", "e", " ", "z", " ", "(", "r", "a", "d", "/", "s", ")">>>>, <<time, x, y, z>>)
      ELSE DataFrame(<<<<"T", "i", "m", "e", " ", "(", "s", ")">>, <<"G", "y", "r", "o", "s", "c", "o", "p", "e", " ", "x", " ", "(", "r", "a", "d", "/", "s", ")">>,
                       <<"G", "y", "r", "o", "s", "c", "o", "p", "e", " ", "y", " ", "(", "r", "a", "d", "/", "s", ")">>>>, <<time, x, y>>)

\* What a file of the folder may hold: nothing readable, or two sheets that
\* are complete or lack the time column, the forward axis or the yaw axis.
\* A recording of 2 rows is emptied by the trim, one of 3 rows keeps a single
\* sample, one of MaxRows rows keeps several.
Workbooks ==
  {Unreadable, Workbook(AccSheet(<<"t", " ", "(", "s", ")">>, MaxRows, TRUE), GyroSheet(TRUE))}
  \cup
  {Workbook(AccSheet(<<"T", "i", "m", "e", " ", "(", "s", ")">>, n, lacks # "Acceleration y"),
            GyroSheet(lacks # "Gyroscope z")) :
     lacks \in {"nothing", "Acceleration y", "Gyroscope z"},
     n \in {2, 3, MaxRows}}

Say(msg, about) == [msg |-> msg, about |-> about]
Did(file, step) == [file |-> file, step |-> step]

Idle ==
  /\ df = None /\ bias = <<>> /\ all_stats = <<>> /\ plot = None /\ report = None
  /\ log = <<>> /\ outcome = <<>> /\ raised = None /\ i = 1

Init ==
  /\ script \in {"advanced", "basic"}
  /\ folder \in {"present", "missing"}
  /\ listing \in Listings
  /\ folder = "missing" => listing = <<>>
  /\ pc = "start"
  /\ Idle
  /\ arg = None /\ ret = None

files == ExcelFiles(listing)

Abort(exc) ==
  /\ raised' = exc
  /\ pc' = "aborted"

(* ------------------- advanced_analysis.py, lines 115-137 ---------------- *)
\* bias = get_calibration_bias()
Calibrate ==
  /\ script = "advanced" /\ pc = "start"
  /\ UNCHANGED <<script, folder, listing, i, df, all_stats, plot, report, outcome,
                 arg, ret>>
  /\ IF folder = "missing"
     THEN /\ Abort(Raise("FileNotFoundError", "get_calibration_bias"))
          /\ UNCHANGED <<bias, log>>
     ELSE IF StationaryFiles(listing) = <<>>
     THEN /\ bias' = <<>>
          /\ log' = Append(log, Say("WARNING: 'stationary.xls' not found!", <<>>))
          /\ pc' = "loop"
          /\ UNCHANGED raised
     ELSE \E wb \in Workbooks :
            LET f == StationaryFiles(listing)[1]
                loaded == load_phyphox_xls(wb)
                said == Append(log, Say("Calibrating with", f))
            IN  IF loaded = None
                THEN /\ log' = Append(said, Say("Error loading", f))
                     /\ Abort(Raise("AttributeError", "get_calibration_bias"))
                     /\ UNCHANGED bias
                ELSE /\ bias' = BiasOf(loaded)
                     /\ log' = Append(said, Say("Bias", f))
                     /\ pc' = "loop"
                     /\ UNCHANGED raised

\* if "stationary" in name: continue
IsCalibrationFile(name) == Contains(name, <<"s", "t", "a", "t", "i", "o", "n", "a", "r", "y">>)

\* The router with its two tests in the other order.
RouteLaneFirst(name) ==
  IF Contains(name, <<"l", "a", "n", "e">>) THEN "analyze_heading"
  ELSE IF Contains(name, <<"s", "t", "r", "a", "i", "g", "h", "t">>) \/ Contains(name, <<"r", "e", "v", "e", "r", "s", "e">>) THEN "analyze_drift"
  ELSE "no analysis"

\* The logic router: which analysis a loaded trial of that name gets.
Route(name) ==
  IF Contains(name, <<"s", "t", "r", "a", "i", "g", "h", "t">>) \/ Contains(name, <<"r", "e", "v", "e", "r", "s", "e">>) THEN "analyze_drift"
  ELSE IF Contains(name, <<"l", "a", "n", "e">>) THEN "analyze_heading"
  ELSE "no analysis"

\* for f in files: the skip of the calibration file, and the load.
MainLoad ==
  /\ script = "advanced" /\ pc = "loop" /\ i <= Len(files)
  /\ UNCHANGED <<script, folder, listing, bias, all_stats, plot, report, raised,
                 arg, ret>>
  /\ LET f == files[i]
         name == Lower(SplitextStem(f))
     IN  IF IsCalibrationFile(name)
         THEN /\ i' = i + 1
              /\ outcome' = Append(outcome, Did(f, "calibration file"))
              /\ UNCHANGED <<pc, df, log>>
         ELSE \E wb \in Workbooks :
                /\ df' = load_phyphox_xls(wb)
                /\ IF df' = None
                   THEN /\ i' = i + 1
                        /\ log' = Append(log, Say("Error loading", f))
                        /\ outcome' = Append(outcome, Did(f, "unavailable"))
                        /\ UNCHANGED pc
                   ELSE /\ pc' = "route"
                        /\ UNCHANGED <<i, log, outcome>>

\* The logic router and the analysis it calls.
MainRoute ==
  /\ script = "advanced" /\ pc = "route"
  /\ UNCHANGED <<script, folder, listing, df, bias, all_stats, report, arg, ret>>
  /\ LET f == files[i]
         name == Lower(SplitextStem(f))
     IN  IF Route(name) = "analyze_drift"
         THEN LET fig == analyze_drift(df, name, bias)
              IN  /\ outcome' = Append(outcome, Did(f, "analyze_drift"))
                  /\ IF IsRaise(fig)
                     THEN Abort(fig) /\ UNCHANGED <<i, plot, log>>
                     ELSE /\ plot' = fig
                          /\ log' = Append(log, Say("Generated Velocity plot", f))
                          /\ i' = i + 1 /\ pc' = "loop"
                          /\ UNCHANGED raised
         ELSE IF Route(name) = "analyze_heading"
         THEN LET fig == analyze_heading(df, name, bias)
              IN  /\ outcome' = Append(outcome, Did(f, "analyze_heading"))
                  /\ IF IsRaise(fig)
                     THEN Abort(fig) /\ UNCHANGED <<i, plot, log>>
                     ELSE /\ plot' = fig
                          /\ log' = Append(log, Say("Generated Heading plot", f))
                          /\ i' = i + 1 /\ pc' = "loop"
                          /\ UNCHANGED raised
         ELSE /\ outcome' = Append(outcome, Did(f, "no analysis"))
              /\ i' = i + 1 /\ pc' = "loop"
              /\ UNCHANGED <<plot, log, raised>>

\* print("Done! ...")
MainDone ==
  /\ script = "advanced" /\ pc = "loop" /\ i > Len(files)
  /\ log' = Append(log, Say("Done!", <<>>))
  /\ pc' = "done"
  /\ UNCHANGED <<script, folder, listing, i, df, bias, all_stats, plot, report,
                 outcome, raised, arg, ret>>

(* --------------------- basic_analysis.py, lines 163-179 ----------------- *)
\* files = [f for f in os.listdir(DATA_FOLDER) if ...]
BasicList ==
  /\ script = "basic" /\ pc = "start"
  /\ UNCHANGED <<script, folder, listing, i, df, bias, all_stats, plot, report,
                 outcome, arg, ret>>
  /\ IF folder = "missing"
     THEN Abort(Raise("FileNotFoundError", "os.listdir")) /\ UNCHANGED log
     ELSE /\ log' = Append(log, Say("Found files. Processing...", <<>>))
          /\ pc' = "loop"
          /\ UNCHANGED raised

\* df = load_phyphox_xls(os.path.join(DATA_FOLDER, f))
BasicLoad ==
  /\ script = "basic" /\ pc = "loop" /\ i <= Len(files)
  /\ \E wb \in Workbooks :
       /\ df' = basic_load_phyphox_xls(wb)
       /\ log' = IF df' = None THEN Append(log, Say("Error reading", files[i]))
                 ELSE log
  /\ pc' = "process"
  /\ UNCHANGED <<script, folder, listing, i, bias, all_stats, plot, report, outcome,
                 raised, arg, ret>>

\* if df is not None: res = process_and_plot(df, fname); if res: all_stats.append(res)
BasicProcess ==
  /\ script = "basic" /\ pc = "process"
  /\ UNCHANGED <<script, folder, listing, df, bias, plot, report, arg, ret>>
  /\ LET f == files[i]
         fname == SplitextStem(f)
     IN  IF df = None
         THEN /\ outcome' = Append(outcome, Did(f, "unavailable"))
              /\ i' = i + 1 /\ pc' = "loop"
              /\ UNCHANGED <<all_stats, log, raised>>
         ELSE LET res == process_and_plot(df, fname)
              IN  IF IsRaise(res)
                  THEN /\ outcome' = Append(outcome, Did(f, "process_and_plot"))
                       /\ Abort(res)
                       /\ UNCHANGED <<i, all_stats, log>>
                  ELSE IF res = None
                  THEN /\ outcome' = Append(outcome, Did(f, "no data"))
                       /\ i' = i + 1 /\ pc' = "loop"
                       /\ UNCHANGED <<all_stats, log, raised>>
                  ELSE /\ outcome' = Append(outcome, Did(f, "process_and_plot"))
                       /\ all_stats' = Append(all_stats, res)
                       /\ log' = Append(log, Say("Processed", f))
                       /\ i' = i + 1 /\ pc' = "loop"
                       /\ UNCHANGED raised

\* save_formatted_excel(all_stats, ...); print("Done! ...")
BasicSave ==
  /\ script = "basic" /\ pc = "loop" /\ i > Len(files)
  /\ report' = save_formatted_excel(all_stats)
  /\ log' = Append(log, Say("Done!", <<>>))
  /\ pc' = "done"
  /\ UNCHANGED <<script, folder, listing, i, df, bias, all_stats, plot, outcome,
                 raised, arg, ret>>

Next ==
  \/ Calibrate \/ MainLoad \/ MainRoute \/ MainDone
  \/ BasicList \/ BasicLoad \/ BasicProcess \/ BasicSave

Spec == Init /\ [][Next]_vars

(* ------------------- the functions called on their own ------------------ *)
SeqsUpTo(S, n) == UNION {[1..k -> S] : k \in 0..n}

\* Time axes: strictly increasing timestamps.
Axes == {t \in SeqsUpTo(0..MaxT, MaxLen) : \A a, b \in 1..Len(t) : a < b => t[a] < t[b]}

Called(fn) ==
  /\ script = fn /\ pc = "call"
  /\ folder = "present" /\ listing = <<>>
  /\ Idle
  /\ ret = None

Return(v) ==
  /\ pc = "call"
  /\ ret' = v
  /\ pc' = "returned"
  /\ UNCHANGED <<script, folder, listing, i, df, bias, all_stats, plot, report, log,
                 outcome, raised, arg>>

\* The trim, on any table and with any margin.
InitTrim ==
  /\ Called("TrimRows")
  /\ \E t \in SeqsUpTo(0..MaxT, MaxLen), trim_seconds \in 0..MaxTrim :
       arg = [df |-> DataFrame(<<<<"T", "i", "m", "e">>, <<"r", "o", "w">>>>,
                               <<Ints(t), [k \in 1..Len(t) |-> R(k)]>>),
              time |-> t, trim_seconds |-> trim_seconds]

CallTrim == script = "TrimRows" /\ Return(TrimRows(arg.df, arg.trim_seconds))

SpecTrim == InitTrim /\ [][CallTrim]_vars

\* The two analyses, on any series of one channel and with or without a bias
\* for it.
InitIntegrate ==
  /\ Called("analyze_drift") \/ Called("analyze_heading")
  /\ \E t \in Axes, b \in 0..MaxV, known \in BOOLEAN :
       \E v \in [1..Len(t) -> (-MaxV)..MaxV] :
         LET channel == IF script = "analyze_drift" THEN <<"A", "c", "c", "e", "l", "e", "r", "a", "t", "i", "o", "n", " ", "y", " ", "(", "m", "/", "s", "^", "2", ")">>
                        ELSE <<"G", "y", "r", "o", "s", "c", "o", "p", "e", " ", "z", " ", "(", "r", "a", "d", "/", "s", ")">>
         IN  arg = [df |-> DataFrame(<<<<"T", "i", "m", "e">>, channel>>, <<Ints(t), Ints(v)>>),
                    channel |-> channel,
                    bias |-> IF known THEN [c \in {channel} |-> R(b)] ELSE <<>>]

CallDrift ==
  script = "analyze_drift" /\ Return(analyze_drift(arg.df, <<"s", "t", "r", "a", "i", "g", "h", "t", "1">>, arg.bias))

CallHeading ==
  script = "analyze_heading" /\ Return(analyze_heading(arg.df, <<"l", "a", "n", "e", "1">>, arg.bias))

NextIntegrate == CallDrift \/ CallHeading

SpecIntegrate == InitIntegrate /\ [][NextIntegrate]_vars

\* The two loaders, on any pair of sheets that each have a time column; the
\* gyroscope is sampled at its own timestamps.
InitLoad ==
  /\ Called("advanced.load_phyphox_xls") \/ Called("basic.load_phyphox_xls")
  /\ \E ta \in Axes, tg \in Axes :
       \E g \in [1..Len(tg) -> {0, 2}] :
         arg = Workbook(DataFrame(<<<<"T", "i", "m", "e", " ", "(", "s", ")">>, <<"A", "c", "c", "e", "l", "e", "r", "a", "t", "i", "o", "n", " ", "y", " ", "(", "m", "/", "s", "^", "2", ")">>>>,
                                  <<Ints(ta), [k \in 1..Len(ta) |-> R(k)]>>),
                        DataFrame(<<<<"T", "i", "m", "e", " ", "(", "s", ")">>, <<"G", "y", "r", "o", "s", "c", "o", "p", "e", " ", "z", " ", "(", "r", "a", "d", "/", "s", ")">>>>,
                                  <<Ints(tg), Ints(g)>>))

CallLoadAdvanced ==
  script = "advanced.load_phyphox_xls" /\ Return(load_phyphox_xls(arg))

CallLoadBasic ==
  script = "basic.load_phyphox_xls" /\ Return(basic_load_phyphox_xls(arg))

NextLoad == CallLoadAdvanced \/ CallLoadBasic

SpecLoad == InitLoad /\ [][NextLoad]_vars

\* The report, on any list of StatRecords of one channel: the mean is 2 or 4,
\* the standard deviation is 1, NaN (a trial of one row) or has no key.
TrialNames == { <<"b", "u", "m", "p", "1">>, <<"b", "u", "m", "p", "2">>, <<"s", "o", "l", "o">>, <<"1", "2">>, <<"B", "u", "m", "p", "3">> }

StatRecords ==
  {StatRecord(name, <<<<"a", "_", "M", "e", "a", "n">>, <<"a", "_", "S", "t", "d">>>>, <<R(2), NaN>>) : name \in TrialNames}
  \cup
  {StatRecord(name, <<<<"a", "_", "M", "e", "a", "n">>, <<"a", "_", "S", "t", "d">>>>, <<R(4), R(1)>>) : name \in TrialNames}
  \cup
  {StatRecord(name, <<<<"a", "_", "M", "e", "a", "n">>>>, <<R(2)>>) : name \in TrialNames}

InitReport ==
  /\ Called("save_formatted_excel")
  /\ arg \in SeqsUpTo(StatRecords, MaxRecords)

CallReport == script = "save_formatted_excel" /\ Return(save_formatted_excel(arg))

SpecReport == InitReport /\ [][CallReport]_vars

(* ------------------------------- claims --------------------------------- *)
RAbs(p) == IF p.num < 0 THEN [num |-> -p.num, den |-> p.den] ELSE p
RLt(p, q) == ~IsNaN(p) /\ ~IsNaN(q) /\ p.num * q.den < q.num * p.den

\* The rows of a table as a sequence of rows, each the sequence of its cells.
RowsOf(d) == [k \in 1..NRows(d) |-> [c \in 1..Len(d.columns) |-> d.data[c][k]]]

\* The rows the claim has the trim drop: within trim_seconds of t_min or of t_max.
NearAnEnd(time, k, trim_seconds) ==
  LET t_min == SeriesMin(time)
      t_max == SeriesMax(time)
  IN  \/ RLt(RAbs(RSub(time[k], t_min)), R(trim_seconds))
      \/ RLt(RAbs(RSub(time[k], t_max)), R(trim_seconds))

\* C8: the trim removes exactly the rows with |t - t_min| < trim_seconds or
\* |t - t_max| < trim_seconds and keeps every other row unchanged and in
\* order; with trim_seconds = 0 it returns the series unchanged.
C8_TrimExact ==
  (script = "TrimRows" /\ pc = "returned") =>
    LET time == Col(arg.df, <<"T", "i", "m", "e">>)
        rows == RowsOf(arg.df)
        far == SelectSeq([k \in 1..Len(rows) |-> k],
                         LAMBDA k : ~NearAnEnd(time, k, arg.trim_seconds))
    IN  /\ ret.columns = arg.df.columns
        /\ RowsOf(ret) = [j \in 1..Len(far) |-> rows[far[j]]]
        /\ arg.trim_seconds = 0 => ret = arg.df

\* A trim of an unsorted series that dropped its two ends and kept the row
\* exactly trim_seconds from both.
C8_Witness ==
  /\ script = "TrimRows" /\ pc = "returned"
  /\ arg.trim_seconds = 2
  /\ arg.time = <<4, 2, 0>>
  /\ Col(ret, <<"T", "i", "m", "e">>) = Ints(<<2>>)
  /\ Col(ret, <<"r", "o", "w">>) = Ints(<<2>>)

\* integral[1] = 0 and integral[k] = integral[k-1] + (v[k]+v[k-1])/2 * (t[k]-t[k-1]).
IsTrapezoidIntegral(integral, v, t) ==
  /\ Len(integral) = Len(t)
  /\ integral[1] = R(0)
  /\ \A k \in 2..Len(t) :
       integral[k] = RAdd(integral[k - 1],
                          RMul(RDiv(RAdd(v[k], v[k - 1]), R(2)), RSub(t[k], t[k - 1])))

\* C9: each integrated output (raw and corrected velocity, heading in radians)
\* has the length of the time axis, is 0 at the first sample and follows the
\* trapezoid recurrence, over the channel for the raw integral and over the
\* channel minus its bias (0 when the bias table lacks it) for the corrected
\* one.  A series with a sample always gets its outputs; the integrator
\* refuses the empty series.
C9_Trapezoid ==
  (script \in {"analyze_drift", "analyze_heading"} /\ pc = "returned") =>
    LET t == Col(arg.df, <<"T", "i", "m", "e">>)
        v == Col(arg.df, arg.channel)
        b == IF arg.bias = <<>> THEN R(0) ELSE arg.bias[arg.channel]
        less == [k \in 1..Len(v) |-> RSub(v[k], b)]
    IN  IF t = <<>> THEN IsRaise(ret)
        ELSE /\ ~IsRaise(ret)
             /\ ret.time = t
             /\ script = "analyze_drift" =>
                  /\ IsTrapezoidIntegral(ret.raw, v, t)
                  /\ IsTrapezoidIntegral(ret.corrected, less, t)
             /\ script = "analyze_heading" =>
                  IsTrapezoidIntegral(ret.rad, less, t)

\* A drift analysis of an unevenly sampled, varying channel with bias 1: the
\* raw velocity ends at 1/2 and the corrected one at -7/2.
C9_Witness ==
  /\ script = "analyze_drift" /\ pc = "returned"
  /\ Col(arg.df, <<"T", "i", "m", "e">>) = Ints(<<0, 1, 4>>)
  /\ Col(arg.df, arg.channel) = Ints(<<0, 1, -1>>)
  /\ arg.bias # <<>> /\ arg.bias[arg.channel] = R(1)
  /\ ret.raw = <<R(0), Rat(1, 2), Rat(1, 2)>>
  /\ ret.corrected = <<R(0), Rat(-1, 2), Rat(-7, 2)>>

\* The columns of a loaded table all have the length of its time axis.
SameLength(d) == \A c \in 1..Len(d.columns) : Len(d.data[c]) = Len(Col(d, <<"T", "i", "m", "e">>))

\* C10 as claimed: the table a loader returns has the accelerometer's time
\* axis, in length and in values, and gyroscope channels of that length.
C10_ReturnedAxisIsAccAxis ==
  (script \in {"advanced.load_phyphox_xls", "basic.load_phyphox_xls"}
     /\ pc = "returned" /\ ret # None) =>
    /\ Col(ret, <<"T", "i", "m", "e">>) = Col(arg.acc, <<"T", "i", "m", "e", " ", "(", "s", ")">>)
    /\ HasCol(ret, <<"G", "y", "r", "o", "s", "c", "o", "p", "e", " ", "z", " ", "(", "r", "a", "d", "/", "s", ")">>)
    /\ SameLength(ret)

\* C10, amended: the merged table has the accelerometer's time axis and
\* gyroscope channels of that length.  The loader of basic_analysis.py returns
\* it; the loader of advanced_analysis.py returns its rows with
\* t_min + TRIM_SECONDS <= t <= t_max - TRIM_SECONDS, so that its time axis is
\* the accelerometer's restricted to those timestamps.  Sheets with a time
\* column are loaded unless the gyroscope sheet has no row.
C10_MergedAxisIsAccAxis ==
  (script \in {"advanced.load_phyphox_xls", "basic.load_phyphox_xls"}
     /\ pc = "returned") =>
    LET acc_time == Col(arg.acc, <<"T", "i", "m", "e", " ", "(", "s", ")">>)
        inner == SelectSeq(acc_time,
                   LAMBDA t : /\ RGe(t, RAdd(SeriesMin(acc_time), R(TRIM_SECONDS)))
                              /\ RLe(t, RSub(SeriesMax(acc_time), R(TRIM_SECONDS))))
    IN  IF Col(arg.gyro, <<"T", "i", "m", "e", " ", "(", "s", ")">>) = <<>> THEN ret = None
        ELSE /\ ret # None
             /\ HasCol(ret, <<"G", "y", "r", "o", "s", "c", "o", "p", "e", " ", "z", " ", "(", "r", "a", "d", "/", "s", ")">>)
             /\ SameLength(ret)
             /\ script = "basic.load_phyphox_xls" => Col(ret, <<"T", "i", "m", "e">>) = acc_time
             /\ script = "advanced.load_phyphox_xls" => Col(ret, <<"T", "i", "m", "e">>) = inner

\* A loader on an accelerometer sampled at 0, 1, 3 and a gyroscope sampled
\* at 1 and 4: the basic one returns all three rows, the advanced one the row
\* at 1 alone.
C10_Witness ==
  /\ pc = "returned"
  /\ arg.kind = "workbook"
  /\ Col(arg.acc, <<"T", "i", "m", "e", " ", "(", "s", ")">>) = Ints(<<0, 1, 3>>)
  /\ Col(arg.gyro, <<"T", "i", "m", "e", " ", "(", "s", ")">>) = Ints(<<1, 4>>)
  /\ \/ script = "basic.load_phyphox_xls" /\ NRows(ret) = 3
     \/ /\ script = "advanced.load_phyphox_xls"
        /\ Col(ret, <<"T", "i", "m", "e">>) = Ints(<<1>>)
        /\ Len(Col(ret, <<"G", "y", "r", "o", "s", "c", "o", "p", "e", " ", "z", " ", "(", "r", "a", "d", "/", "s", ")">>)) = 1

\* The longest prefix of x made of letters only.
AlphaPrefix(x) ==
  SubSeq(x, 1, CHOOSE n \in 0..Len(x) :
                 /\ \A j \in 1..n : x[j] \in Letters
                 /\ n < Len(x) => x[n + 1] \notin Letters)

\* The group a trial name belongs to, as the claims have it.
GroupOf(x) == IF AlphaPrefix(x) = <<>> THEN <<"O", "t", "h", "e", "r">> ELSE AlphaPrefix(x)

GroupsOf(stats_list) == {GroupOf(stats_list[k].Filename) : k \in 1..Len(stats_list)}

\* The position of the first trial of a group.
FirstOf(stats_list, g) ==
  CHOOSE k \in 1..Len(stats_list) :
    /\ GroupOf(stats_list[k].Filename) = g
    /\ \A j \in 1..(k - 1) : GroupOf(stats_list[j].Filename) # g

\* The report lists the trials' records first, in the order given, then
\* the averages, each named after a group.
RawThenAverages(stats_list, rep) ==
  /\ Len(rep.rows) >= Len(stats_list)
  /\ \A k \in 1..Len(stats_list) :
       /\ rep.rows[k].Filename = stats_list[k].Filename
       /\ \A c \in 1..Len(rep.columns) :
            rep.rows[k].vals[c] = Cell(stats_list[k], rep.columns[c])
  /\ \A k \in (Len(stats_list) + 1)..Len(rep.rows) :
       \E g \in GroupsOf(stats_list) : rep.rows[k].Filename = g \o <<"_", "a", "v", "g">>

\* The group an average row is named after.
AvgGroup(stats_list, row) ==
  CHOOSE g \in GroupsOf(stats_list) : row.Filename = g \o <<"_", "a", "v", "g">>

\* C5 as claimed: the raw records first, in processing order, then the group
\* averages in the order of the first appearance of their group.
C5_AveragesByFirstAppearance ==
  (script = "save_formatted_excel" /\ pc = "returned" /\ arg # <<>>) =>
    /\ RawThenAverages(arg, ret)
    /\ \A a, b \in (Len(arg) + 1)..Len(ret.rows) :
         a < b => FirstOf(arg, AvgGroup(arg, ret.rows[a]))
                    < FirstOf(arg, AvgGroup(arg, ret.rows[b]))

\* C5, amended: the raw records first, in processing order, then the group
\* averages in ascending order of the group name (by code point, as Python
\* compares strings: "Bump" before "Other" before "bump").
C5_AveragesByGroupName ==
  (script = "save_formatted_excel" /\ pc = "returned" /\ arg # <<>>) =>
    /\ RawThenAverages(arg, ret)
    /\ \A a, b \in (Len(arg) + 1)..Len(ret.rows) :
         a < b => StrLess(AvgGroup(arg, ret.rows[a]), AvgGroup(arg, ret.rows[b]))

\* A report of solo, bump1, Bump3: the averages come as Bump, bump, solo.
C5_Witness ==
  /\ script = "save_formatted_excel" /\ pc = "returned"
  /\ Len(arg) = 3
  /\ arg[1].Filename = <<"s", "o", "l", "o">> /\ arg[2].Filename = <<"b", "u", "m", "p", "1">>
  /\ arg[3].Filename = <<"B", "u", "m", "p", "3">>
  /\ Len(ret.rows) = 6
  /\ ret.rows[4].Filename = <<"B", "u", "m", "p", "_", "a", "v", "g">>
  /\ ret.rows[5].Filename = <<"b", "u", "m", "p", "_", "a", "v", "g">>
  /\ ret.rows[6].Filename = <<"s", "o", "l", "o", "_", "a", "v", "g">>

\* The cells of a column over the members of a group.
MemberCells(stats_list, g, key) ==
  LET members == SelectSeq(stats_list, LAMBDA rec : GroupOf(rec.Filename) = g)
  IN  [k \in 1..Len(members) |-> Cell(members[k], key)]

\* One average row per group and nothing else after the trials' rows.
OneAveragePerGroup(stats_list, rep) ==
  /\ Len(rep.rows) = Len(stats_list) + Cardinality(GroupsOf(stats_list))
  /\ \A g \in GroupsOf(stats_list) :
       Cardinality({k \in 1..Len(rep.rows) : rep.rows[k].Filename = g \o <<"_", "a", "v", "g">>
                                              /\ k > Len(stats_list)}) = 1

\* C6 as claimed: one "{group}_avg" row per group, the group being the leading
\* letters of the name or "Other", and every field of it the arithmetic mean
\* of that field over exactly the members of the group.
C6_MeanOverAllMembers ==
  (script = "save_formatted_excel" /\ pc = "returned" /\ arg # <<>>) =>
    /\ OneAveragePerGroup(arg, ret)
    /\ \A k \in (Len(arg) + 1)..Len(ret.rows), c \in 1..Len(ret.columns) :
         LET cells == MemberCells(arg, AvgGroup(arg, ret.rows[k]), ret.columns[c])
         IN  ret.rows[k].vals[c] = RDiv(RSum(cells), R(Len(cells)))

\* C6, amended: one "{group}_avg" row per group, and every field of it the
\* arithmetic mean of that field over the members of the group that have a
\* value for it (a member whose field is NaN or missing is left out); NaN when
\* no member has one.
C6_MeanOverMembersWithValue ==
  (script = "save_formatted_excel" /\ pc = "returned" /\ arg # <<>>) =>
    /\ OneAveragePerGroup(arg, ret)
    /\ \A k \in (Len(arg) + 1)..Len(ret.rows), c \in 1..Len(ret.columns) :
         LET cells == MemberCells(arg, AvgGroup(arg, ret.rows[k]), ret.columns[c])
             valued == SelectSeq(cells, LAMBDA x : x.den # 0)
         IN  ret.rows[k].vals[c] =
               IF valued = <<>> THEN NaN ELSE RDiv(RSum(valued), R(Len(valued)))

\* bump1 with mean 2 and no standard deviation, bump2 with mean 4 and standard
\* deviation 1, and solo: bump_avg has mean 3 and standard deviation 1, and
\* solo_avg equals solo.
C6_Witness ==
  /\ script = "save_formatted_excel" /\ pc = "returned"
  /\ arg = <<StatRecord(<<"b", "u", "m", "p", "1">>, <<<<"a", "_", "M", "e", "a", "n">>, <<"a", "_", "S", "t", "d">>>>, <<R(2), NaN>>),
             StatRecord(<<"b", "u", "m", "p", "2">>, <<<<"a", "_", "M", "e", "a", "n">>, <<"a", "_", "S", "t", "d">>>>, <<R(4), R(1)>>),
             StatRecord(<<"s", "o", "l", "o">>, <<<<"a", "_", "M", "e", "a", "n">>, <<"a", "_", "S", "t", "d">>>>, <<R(4), R(1)>>)>>
  /\ ret.rows[4] = Row(<<"b", "u", "m", "p", "_", "a", "v", "g">>, <<R(3), R(1)>>)
  /\ ret.rows[5] = Row(<<"s", "o", "l", "o", "_", "a", "v", "g">>, <<R(4), R(1)>>)
  /\ Len(ret.rows) = 5

\* Where the failures of one file arise: the read of the workbook, the lookup
\* of the time column, and the lookup of the channel of an analysis.
PerFileSteps ==
  {"pd.read_excel", "load_phyphox_xls", "analyze_drift", "analyze_heading",
   "process_and_plot"}

\* C1: a per-file failure (unreadable file or sheet, no time column, no
\* channel for the analysis) is caught and logged and the file is skipped;
\* no such failure ends the run, which handles every file of the list and
\* reaches its final "Done" step.
C1_PerFileFailureIsolated ==
  /\ raised # None => raised.where \notin PerFileSteps
  /\ pc = "done" =>
       /\ Len(outcome) = Len(files)
       /\ log[Len(log)].msg = "Done!"

\* C2: a caller of the load/trim step never receives an empty table: when the
\* trim leaves no row it receives None, so that no analysis, bias or
\* statistics step runs on an empty series.
C2_NoEmptyTable ==
  /\ (script = "advanced" /\ df # None) => NRows(df) > 0
  /\ \A c \in DOMAIN bias : ~IsNaN(bias[c])
  /\ raised # None => raised.where # "cumulative_trapezoid"

\* Whether the text names the key word, whatever the case.
Names(text, word) == Contains(Lower(text), word)

\* The files of the listing the scripts work on.
IsInput(f) == EndsWith(f, <<".", "x", "l", "s">>) \/ EndsWith(f, <<".", "x", "l", "s", "x">>)

\* C3: without an input file named "stationary", the calibration returns an
\* empty bias table and warns, the run still handles every file and completes,
\* and the corrected velocity of every straight/reverse trial equals the raw
\* velocity at every sample.
C3_NoStationaryFile ==
  (script = "advanced" /\ folder = "present"
     /\ \A k \in 1..Len(listing) : ~(IsInput(listing[k]) /\ Names(listing[k], <<"s", "t", "a", "t", "i", "o", "n", "a", "r", "y">>)))
  =>
    /\ pc # "start" => /\ bias = <<>>
                       /\ log[1].msg = "WARNING: 'stationary.xls' not found!"
    /\ pc # "aborted"
    /\ pc = "done" => Len(outcome) = Len(files)
    /\ plot # None /\ plot.kind = "Drift_Compare" => plot.corrected = plot.raw

\* The part of C3 about the calibration and the velocities alone.
C3_ZeroBiasPart ==
  (script = "advanced" /\ folder = "present"
     /\ \A k \in 1..Len(listing) : ~(IsInput(listing[k]) /\ Names(listing[k], <<"s", "t", "a", "t", "i", "o", "n", "a", "r", "y">>)))
  =>
    /\ pc # "start" => /\ bias = <<>>
                       /\ log[1].msg = "WARNING: 'stationary.xls' not found!"
    /\ plot # None /\ plot.kind = "Drift_Compare" => plot.corrected = plot.raw

\* C4: a caller skips a trial the loader signals as unavailable and goes on:
\* the calibration does not raise when the stationary file cannot be loaded,
\* and nothing but the failure to list the input folder ends a run.
C4_OnlyTheFolderIsFatal ==
  raised # None => raised.exc = "FileNotFoundError"

\* The analyses a trial name may get, as the claim has it: "stationary" first,
\* then "straight"/"reverse", then "lane".
Category(f) ==
  LET name == Lower(SplitextStem(f))
  IN  IF Contains(name, <<"s", "t", "a", "t", "i", "o", "n", "a", "r", "y">>) THEN "calibration file"
      ELSE IF Contains(name, <<"s", "t", "r", "a", "i", "g", "h", "t">>) \/ Contains(name, <<"r", "e", "v", "e", "r", "s", "e">>)
      THEN "analyze_drift"
      ELSE IF Contains(name, <<"l", "a", "n", "e">>) THEN "analyze_heading"
      ELSE "no analysis"

\* C7: the router gives every trial one category, by the precedence
\* "stationary" > "straight"/"reverse" > "lane" > other: a loaded trial gets
\* the analysis of its category and no other, a "stationary" trial is never
\* integrated, and no trial is met twice.
C7_RouterPrecedence ==
  script = "advanced" =>
    LET trials == files
        category == [k \in 1..Len(outcome) |-> Category(trials[k])]
    IN  /\ \A k \in 1..Len(outcome) :
             /\ outcome[k].file = trials[k]
             /\ outcome[k].step \in {category[k], "unavailable"}
             /\ category[k] = "calibration file" =>
                  outcome[k].step = "calibration file"
        /\ plot # None =>
             \E k \in 1..Len(outcome) :
                /\ plot.filename = Lower(SplitextStem(trials[k]))
                /\ plot.kind = (IF category[k] = "analyze_drift"
                                THEN "Drift_Compare" ELSE "Heading")

\* A run over reverse_lane.xlsx and Stationary_straight.xls: the first got the
\* drift analysis alone, the second none.
C7_Witness ==
  /\ script = "advanced" /\ pc = "done"
  /\ listing = <<<<"r", "e", "v", "e", "r", "s", "e", "_", "l", "a", "n", "e", ".", "x", "l", "s", "x">>, <<"S", "t", "a", "t", "i", "o", "n", "a", "r", "y", "_", "s", "t", "r", "a", "i", "g", "h", "t", ".", "x", "l", "s">>>>
  /\ outcome = <<Did(<<"r", "e", "v", "e", "r", "s", "e", "_", "l", "a", "n", "e", ".", "x", "l", "s", "x">>, "analyze_drift"),
                 Did(<<"S", "t", "a", "t", "i", "o", "n", "a", "r", "y", "_", "s", "t", "r", "a", "i", "g", "h", "t", ".", "x", "l", "s">>, "calibration file")>>
  /\ plot.kind = "Drift_Compare"

====
